---- MODULE Spec2Model ----
(***************************************************************************)
(* A model of arena.go: the arena's match state machine, the readiness     *)
(* check, team assignment into the six alliance stations and the driver    *)
(* station packet dispatch.                                                *)
(*                                                                         *)
(* Time is kept as two clocks in milliseconds: sinceMatchStart is the      *)
(* value of time.Since(arena.matchStartTime) and sinceLastDsPacket the     *)
(* value of time.Since(arena.lastDsPacketTime).  Both saturate at a cap    *)
(* above every threshold the code compares them with.                      *)
(***************************************************************************)
EXTENDS Integers, FiniteSets, Sequences, TLC

(* ------------------------------ bounds --------------------------------- *)

\* Team numbers an operator passes to AssignTeam / SubstituteTeam: 0..MaxTeam.
MaxTeam == 2
\* Number of AssignTeam / LoadMatch / SubstituteTeam calls in one run.
MaxAssignCalls == 1
\* Number of writes to station flags by the field's surroundings in one run.
MaxFlagWrites == 2
\* Saturation value of sinceMatchStart (ms).
MatchClockCap == 152000
\* Saturation value of sinceLastDsPacket (ms).
PacketClockCap == 500
\* Number of AssignTeam / LoadMatch / SubstituteTeam calls in one run of the
\* specification of the assignment sequences.
MaxSeqAssignCalls == 2
\* Number of writes to station flags in one run of that specification.
MaxSeqFlagWrites == 1
\* Number of AssignTeam / LoadMatch / SubstituteTeam calls, and of writes to
\* station flags, in one run of the specification of the unsynchronized loop.
MaxRaceAssignCalls == 1
MaxRaceFlagWrites == 1
\* Number of writes to station flags in one run of the specification of the
\* loop with its period.
MaxTickFlagWrites == 1

(* ------------------------- program constants --------------------------- *)

arenaLoopPeriodMs == 10
dsPacketPeriodMs == 250
autoDurationSec == 10
pauseDurationSec == 1
teleopDurationSec == 140
endgameTimeLeftSec == 30

PRE_MATCH == 0
START_MATCH == 1
AUTO_PERIOD == 2
PAUSE_PERIOD == 3
TELEOP_PERIOD == 4
ENDGAME_PERIOD == 5
POST_MATCH == 6

MatchStates == PRE_MATCH..POST_MATCH

\* The keys Setup puts into arena.AllianceStations, in LoadMatch's order.
StationOrder == <<"R1", "R2", "R3", "B1", "B2", "B3">>
Stations == {StationOrder[i] : i \in 1..Len(StationOrder)}
\* A station argument that is no key of the map.
InvalidStation == "X9"
\* The station arguments of AssignTeam and SubstituteTeam calls: the first
\* station, and one that does not exist.
StationArgs == {StationOrder[1], InvalidStation}
\* The stations at which a collaborator fails during a LoadMatch call.
FaultStations == {StationOrder[2]}

\* A nil *Team: the station's team is kept as its Id, and no team has Id 0.
NoTeam == 0

\* A nil *DriverStationConnection.
NilConn == [nil |-> TRUE, TeamId |-> 0, RobotLinked |-> FALSE,
            Auto |-> FALSE, Enabled |-> FALSE]

\* The connection NewDriverStationConnection(teamId, station) returns.
NewDriverStationConnection(teamId) ==
    [nil |-> FALSE, TeamId |-> teamId, RobotLinked |-> FALSE,
     Auto |-> FALSE, Enabled |-> FALSE]

\* new(AllianceStation)
EmptyStation ==
    [DsConn |-> NilConn, EmergencyStop |-> FALSE, Bypass |-> FALSE, team |-> NoTeam]

\* Match records: Type and the six team numbers.
MkMatch(type, r1, r2, r3, b1, b2, b3) ==
    [Type |-> type, Red1 |-> r1, Red2 |-> r2, Red3 |-> r3,
     Blue1 |-> b1, Blue2 |-> b2, Blue3 |-> b3]

\* &Match{Type: "test"}
TestMatch == MkMatch("test", 0, 0, 0, 0, 0, 0)

\* The matches a caller hands to LoadMatch.
Matches ==
    { TestMatch,
      MkMatch("practice", 1, 2, 0, 0, 0, 0),
      MkMatch("qualification", 1, 2, 3, 4, 5, 6),
      MkMatch("elimination", 2, 1, 0, 0, 0, 0) }

\* The team number a match schedules at a station.
MatchTeam(match, station) ==
    CASE station = "R1" -> match.Red1
      [] station = "R2" -> match.Red2
      [] station = "R3" -> match.Red3
      [] station = "B1" -> match.Blue1
      [] station = "B2" -> match.Blue2
      [] station = "B3" -> match.Blue3

(* ------------------------------ errors --------------------------------- *)

OK == "nil"
ErrInvalidStation == "InvalidStation"
ErrClose == "CloseFailed"
ErrStore == "StoreError"
ErrUnknownTeam == "UnknownTeam"
ErrNewConn == "ConnectionFailed"
ErrMatchInProgress == "MatchInProgress"
ErrNotInProgress == "NotInProgress"
ErrSubstitution == "SubstitutionNotAllowed"
ErrEmergencyStop == "EmergencyStopActive"
ErrRobotNotReady == "RobotNotReady"

\* What the collaborators of one AssignTeam call do: all succeed ("none"), or
\* dsConn.Close fails, db.GetTeamById fails or finds no team, or
\* NewDriverStationConnection fails.
Faults == {"none", "close", "store", "noteam", "newconn"}

(* ------------------------------- state --------------------------------- *)

VARIABLES
    MatchState,         \* arena.MatchState
    AllianceStations,   \* arena.AllianceStations
    CanStartMatch,      \* arena.CanStartMatch
    currentMatch,       \* *arena.currentMatch
    sinceMatchStart,    \* time.Since(arena.matchStartTime), ms, saturated
    sinceLastDsPacket,  \* time.Since(arena.lastDsPacketTime), ms, saturated
    last,               \* the last call: its name, result and what it did
    assignCalls,        \* AssignTeam / LoadMatch / SubstituteTeam calls left
    flagWrites,         \* writes to station flags left
    loop                \* where the Update call of Arena.Run is, and its locals

vars == <<MatchState, AllianceStations, CanStartMatch, currentMatch,
          sinceMatchStart, sinceLastDsPacket, last, assignCalls, flagWrites, loop>>

\* The record of a call: op and err are the operation and the error it
\* returned; from the match state it was made in; teamId and station the
\* arguments it was called with; sent, auto, enabled the sendDsPacket call it
\* made and failed the stations whose DsConn.Update returned an error in it;
\* closes, lookups, creates the number of dsConn.Close, db.GetTeamById and
\* NewDriverStationConnection calls it made; closed and created the stations
\* whose connection it closed and for which it created one, without error.
Call(op, err) ==
    [op |-> op, err |-> err, from |-> MatchState, teamId |-> 0, station |-> "",
     sent |-> FALSE, auto |-> FALSE, enabled |-> FALSE, failed |-> {},
     closes |-> 0, lookups |-> 0, creates |-> 0, closed |-> {}, created |-> {}]

\* The Update call of Arena.Run when it is not running: no line of it has
\* been executed since it last returned.
LoopIdle ==
    [pc |-> "idle", t |-> 0, ms |-> PRE_MATCH,
     auto |-> FALSE, enabled |-> FALSE, send |-> FALSE]

Min(a, b) == IF a <= b THEN a ELSE b

InProgress(ms) == ms # PRE_MATCH /\ ms # POST_MATCH

(* --------------------------- team assignment --------------------------- *)

\* The outcome of an AssignTeam call: the stations afterwards, the error
\* returned, the number of Close, GetTeamById and NewDriverStationConnection
\* calls made, and whether the station's connection was closed and a new one
\* created without error.
AssignOutcome(st, err, closes, lookups, creates, closed, created) ==
    [st |-> st, err |-> err, closes |-> closes, lookups |-> lookups,
     creates |-> creates, closed |-> closed, created |-> created]

\* AssignTeamResult without the test for the team already assigned.
AssignTeamResult_NoShortcut(st, teamId, station, fault) ==
    IF station \notin Stations
    THEN AssignOutcome(st, ErrInvalidStation, 0, 0, 0, {}, {})
    ELSE
    LET dsConn == st[station].DsConn IN
    IF ~dsConn.nil /\ fault = "close"
    THEN AssignOutcome(st, ErrClose, 1, 0, 0, {}, {})
    ELSE
    LET closes == IF dsConn.nil THEN 0 ELSE 1
        closed == IF dsConn.nil THEN {} ELSE {station}
        st1 == IF dsConn.nil THEN st
               ELSE [st EXCEPT ![station].team = NoTeam, ![station].DsConn = NilConn]
    IN
    IF teamId = 0
    THEN AssignOutcome(st1, OK, closes, 0, 0, closed, {})
    ELSE IF fault = "store"
    THEN AssignOutcome(st1, ErrStore, closes, 1, 0, closed, {})
    ELSE IF fault = "noteam"
    THEN AssignOutcome(st1, ErrUnknownTeam, closes, 1, 0, closed, {})
    ELSE
    LET st2 == [st1 EXCEPT ![station].team = teamId] IN
    IF fault = "newconn"
    THEN AssignOutcome([st2 EXCEPT ![station].DsConn = NilConn],
                       ErrNewConn, closes, 1, 1, closed, {})
    ELSE AssignOutcome([st2 EXCEPT ![station].DsConn = NewDriverStationConnection(teamId)],
                       OK, closes, 1, 1, closed, {station})

\* AssignTeamResult that binds the new connection over the old one without
\* closing it.
AssignTeamResult_NoClose(st, teamId, station, fault) ==
    IF station \notin Stations
    THEN AssignOutcome(st, ErrInvalidStation, 0, 0, 0, {}, {})
    ELSE
    LET dsConn == st[station].DsConn IN
    IF ~dsConn.nil /\ dsConn.TeamId = teamId
    THEN AssignOutcome(st, OK, 0, 0, 0, {}, {})
    ELSE
    LET st1 == IF dsConn.nil THEN st
               ELSE [st EXCEPT ![station].team = NoTeam, ![station].DsConn = NilConn]
    IN
    IF teamId = 0
    THEN AssignOutcome(st1, OK, 0, 0, 0, {}, {})
    ELSE IF fault = "store"
    THEN AssignOutcome(st1, ErrStore, 0, 1, 0, {}, {})
    ELSE IF fault = "noteam"
    THEN AssignOutcome(st1, ErrUnknownTeam, 0, 1, 0, {}, {})
    ELSE
    LET st2 == [st1 EXCEPT ![station].team = teamId] IN
    IF fault = "newconn"
    THEN AssignOutcome([st2 EXCEPT ![station].DsConn = NilConn],
                       ErrNewConn, 0, 1, 1, {}, {})
    ELSE AssignOutcome([st2 EXCEPT ![station].DsConn = NewDriverStationConnection(teamId)],
                       OK, 0, 1, 1, {}, {station})

\* Arena.AssignTeam on the stations st.  fault says what the collaborators do
\* in this call.
AssignTeamResult(st, teamId, station, fault) ==
    IF station \notin Stations
    THEN AssignOutcome(st, ErrInvalidStation, 0, 0, 0, {}, {})
    ELSE
    LET dsConn == st[station].DsConn IN
    IF ~dsConn.nil /\ dsConn.TeamId = teamId
    THEN AssignOutcome(st, OK, 0, 0, 0, {}, {})
    ELSE IF ~dsConn.nil /\ fault = "close"
    THEN AssignOutcome(st, ErrClose, 1, 0, 0, {}, {})
    ELSE
    LET closes == IF dsConn.nil THEN 0 ELSE 1
        closed == IF dsConn.nil THEN {} ELSE {station}
        st1 == IF dsConn.nil THEN st
               ELSE [st EXCEPT ![station].team = NoTeam, ![station].DsConn = NilConn]
    IN
    IF teamId = 0
    THEN AssignOutcome(st1, OK, closes, 0, 0, closed, {})
    ELSE IF fault = "store"
    THEN AssignOutcome(st1, ErrStore, closes, 1, 0, closed, {})
    ELSE IF fault = "noteam"
    THEN AssignOutcome(st1, ErrUnknownTeam, closes, 1, 0, closed, {})
    ELSE
    LET st2 == [st1 EXCEPT ![station].team = teamId] IN
    IF fault = "newconn"
    THEN AssignOutcome([st2 EXCEPT ![station].DsConn = NilConn],
                       ErrNewConn, closes, 1, 1, closed, {})
    ELSE AssignOutcome([st2 EXCEPT ![station].DsConn = NewDriverStationConnection(teamId)],
                       OK, closes, 1, 1, closed, {station})

\* The record of a call that ended as the assignment result r says.
AssignCall(op, station, r) ==
    [Call(op, r.err) EXCEPT !.station = station, !.closes = r.closes,
                            !.lookups = r.lookups, !.creates = r.creates,
                            !.closed = r.closed, !.created = r.created]

\* Arena.AssignTeam(teamId, station)
AssignTeam(teamId, station, fault) ==
    /\ assignCalls > 0
    /\ LET r == AssignTeamResult(AllianceStations, teamId, station, fault) IN
        /\ AllianceStations' = r.st
        /\ last' = [AssignCall("AssignTeam", station, r) EXCEPT !.teamId = teamId]
    /\ assignCalls' = assignCalls - 1
    /\ UNCHANGED <<MatchState, CanStartMatch, currentMatch, sinceMatchStart,
                   sinceLastDsPacket, flagWrites, loop>>

\* The six AssignTeam calls of LoadMatch from the i-th station on, stopping at
\* the first error; the collaborators fail as kind says at station at.
RECURSIVE LoadMatchFrom(_, _, _, _, _)
LoadMatchFrom(st, match, i, at, kind) ==
    IF i > Len(StationOrder)
    THEN [st |-> st, err |-> OK, station |-> "", closes |-> 0, lookups |-> 0,
          creates |-> 0, closed |-> {}, created |-> {}]
    ELSE
    LET station == StationOrder[i]
        r == AssignTeamResult(st, MatchTeam(match, station), station,
                              IF station = at THEN kind ELSE "none")
    IN
    IF r.err # OK
    THEN [st |-> r.st, err |-> r.err, station |-> station,
          closes |-> r.closes, lookups |-> r.lookups, creates |-> r.creates,
          closed |-> r.closed, created |-> r.created]
    ELSE
    LET rest == LoadMatchFrom(r.st, match, i + 1, at, kind) IN
    [rest EXCEPT !.closes = @ + r.closes, !.lookups = @ + r.lookups,
                 !.creates = @ + r.creates, !.closed = @ \cup r.closed,
                 !.created = @ \cup r.created]

\* Arena.LoadMatch(match)
LoadMatch(match, at, kind) ==
    /\ assignCalls > 0
    /\ IF MatchState # PRE_MATCH
       THEN /\ last' = Call("LoadMatch", ErrMatchInProgress)
            /\ UNCHANGED <<AllianceStations, currentMatch>>
       ELSE LET r == LoadMatchFrom(AllianceStations, match, 1, at, kind) IN
            /\ currentMatch' = match
            /\ AllianceStations' = r.st
            /\ last' = AssignCall("LoadMatch", r.station, r)
    /\ assignCalls' = assignCalls - 1
    /\ UNCHANGED <<MatchState, CanStartMatch, sinceMatchStart, sinceLastDsPacket,
                   flagWrites, loop>>

\* The match record with the field of the station set to teamId.
SetMatchTeam(match, station, teamId) ==
    CASE station = "R1" -> [match EXCEPT !.Red1 = teamId]
      [] station = "R2" -> [match EXCEPT !.Red2 = teamId]
      [] station = "R3" -> [match EXCEPT !.Red3 = teamId]
      [] station = "B1" -> [match EXCEPT !.Blue1 = teamId]
      [] station = "B2" -> [match EXCEPT !.Blue2 = teamId]
      [] station = "B3" -> [match EXCEPT !.Blue3 = teamId]
      [] OTHER -> match

\* Arena.SubstituteTeam(teamId, station)
SubstituteTeam(teamId, station, fault) ==
    /\ assignCalls > 0
    /\ IF currentMatch.Type # "test" /\ currentMatch.Type # "practice"
       THEN /\ last' = [Call("SubstituteTeam", ErrSubstitution)
                            EXCEPT !.teamId = teamId, !.station = station]
            /\ UNCHANGED <<AllianceStations, currentMatch>>
       ELSE LET r == AssignTeamResult(AllianceStations, teamId, station, fault) IN
            /\ AllianceStations' = r.st
            /\ last' = [AssignCall("SubstituteTeam", station, r) EXCEPT !.teamId = teamId]
            /\ currentMatch' = IF r.err # OK THEN currentMatch
                               ELSE SetMatchTeam(currentMatch, station, teamId)
    /\ assignCalls' = assignCalls - 1
    /\ UNCHANGED <<MatchState, CanStartMatch, sinceMatchStart, sinceLastDsPacket,
                   flagWrites, loop>>

(* ------------------------ the readiness check -------------------------- *)

\* CheckStation without the emergency stop test.
CheckStation_NoEmergencyStop(allianceStation) ==
    IF ~allianceStation.Bypass
       /\ (allianceStation.DsConn.nil \/ ~allianceStation.DsConn.RobotLinked)
    THEN ErrRobotNotReady
    ELSE OK

\* CheckStation with a bypassed station held to the link test too.
CheckStation_NoBypass(allianceStation) ==
    IF allianceStation.EmergencyStop THEN ErrEmergencyStop
    ELSE IF allianceStation.DsConn.nil \/ ~allianceStation.DsConn.RobotLinked
    THEN ErrRobotNotReady
    ELSE OK

\* One iteration of the loop of CheckCanStartMatch: the error the station makes
\* the loop return with, OK when the loop goes on to the next station.
CheckStation(allianceStation) ==
    IF allianceStation.EmergencyStop THEN ErrEmergencyStop
    ELSE IF ~allianceStation.Bypass
            /\ (allianceStation.DsConn.nil \/ ~allianceStation.DsConn.RobotLinked)
    THEN ErrRobotNotReady
    ELSE OK

\* Arena.CheckCanStartMatch: the errors it can return.  The loop ranges over a
\* Go map, whose iteration order is unspecified: it returns at the first
\* station it visits that fails, and any failing station may be that one.
CheckCanStartMatch(ms, st) ==
    IF ms # PRE_MATCH THEN {ErrMatchInProgress}
    ELSE LET errs == {CheckStation(st[s]) : s \in Stations} \ {OK} IN
         IF errs = {} THEN {OK} ELSE errs

\* A call of Arena.CheckCanStartMatch by the arena's users.
CheckCanStartMatchCall ==
    /\ \E err \in CheckCanStartMatch(MatchState, AllianceStations) :
          last' = Call("CheckCanStartMatch", err)
    /\ UNCHANGED <<MatchState, AllianceStations, CanStartMatch, currentMatch,
                   sinceMatchStart, sinceLastDsPacket, assignCalls, flagWrites, loop>>

(* ------------------------- match flow control -------------------------- *)

\* Arena.StartMatch
StartMatch ==
    /\ \E err \in CheckCanStartMatch(MatchState, AllianceStations) :
          /\ MatchState' = IF err = OK THEN START_MATCH ELSE MatchState
          /\ last' = Call("StartMatch", err)
    /\ UNCHANGED <<AllianceStations, CanStartMatch, currentMatch, sinceMatchStart,
                   sinceLastDsPacket, assignCalls, flagWrites, loop>>

\* AbortMatch that goes back to PRE_MATCH.
AbortMatch_ToPreMatch ==
    /\ IF MatchState = PRE_MATCH \/ MatchState = POST_MATCH
       THEN /\ last' = Call("AbortMatch", ErrNotInProgress)
            /\ UNCHANGED MatchState
       ELSE /\ MatchState' = PRE_MATCH
            /\ last' = Call("AbortMatch", OK)
    /\ UNCHANGED <<AllianceStations, CanStartMatch, currentMatch, sinceMatchStart,
                   sinceLastDsPacket, assignCalls, flagWrites, loop>>

\* AbortMatch that takes START_MATCH for not yet in progress.
AbortMatch_NotFromStart ==
    /\ IF MatchState <= START_MATCH \/ MatchState = POST_MATCH
       THEN /\ last' = Call("AbortMatch", ErrNotInProgress)
            /\ UNCHANGED MatchState
       ELSE /\ MatchState' = POST_MATCH
            /\ last' = Call("AbortMatch", OK)
    /\ UNCHANGED <<AllianceStations, CanStartMatch, currentMatch, sinceMatchStart,
                   sinceLastDsPacket, assignCalls, flagWrites, loop>>

\* Arena.AbortMatch
AbortMatch ==
    /\ IF MatchState = PRE_MATCH \/ MatchState = POST_MATCH
       THEN /\ last' = Call("AbortMatch", ErrNotInProgress)
            /\ UNCHANGED MatchState
       ELSE /\ MatchState' = POST_MATCH
            /\ last' = Call("AbortMatch", OK)
    /\ UNCHANGED <<AllianceStations, CanStartMatch, currentMatch, sinceMatchStart,
                   sinceLastDsPacket, assignCalls, flagWrites, loop>>

\* ClearBypass that leaves out the last station.
ClearBypass_FiveStations(st) ==
    [s \in Stations |->
        IF s = StationOrder[Len(StationOrder)] THEN st[s]
        ELSE [st[s] EXCEPT !.Bypass = FALSE]]

\* The stations after ResetMatch's six assignments.
ClearBypass(st) ==
    [s \in Stations |-> [st[s] EXCEPT !.Bypass = FALSE]]

\* Arena.ResetMatch
ResetMatch ==
    /\ IF MatchState # POST_MATCH /\ MatchState # PRE_MATCH
       THEN /\ last' = Call("ResetMatch", ErrMatchInProgress)
            /\ UNCHANGED <<MatchState, AllianceStations>>
       ELSE /\ MatchState' = PRE_MATCH
            /\ AllianceStations' = ClearBypass(AllianceStations)
            /\ last' = Call("ResetMatch", OK)
    /\ UNCHANGED <<CanStartMatch, currentMatch, sinceMatchStart, sinceLastDsPacket,
                   assignCalls, flagWrites, loop>>

(* --------------------------- the control loop -------------------------- *)

\* Arena.MatchTimeSec, in milliseconds.
MatchTimeMs(ms, since) ==
    IF ms = PRE_MATCH \/ ms = POST_MATCH THEN 0 ELSE since

\* The match times (ms) at which Update leaves AUTO_PERIOD, PAUSE_PERIOD,
\* TELEOP_PERIOD and ENDGAME_PERIOD.
AutoEndMs == autoDurationSec * 1000
\* PauseEndMs counted from the end of the autonomous period.
PauseEndMs_NoAuto == pauseDurationSec * 1000
PauseEndMs == (autoDurationSec + pauseDurationSec) * 1000
EndgameStartMs ==
    (autoDurationSec + pauseDurationSec + teleopDurationSec - endgameTimeLeftSec) * 1000
TeleopEndMs == (autoDurationSec + pauseDurationSec + teleopDurationSec) * 1000

\* UpdateSwitch that asks for a packet when it enters ENDGAME_PERIOD too.
UpdateSwitch_SendAtEndgame(ms, t) ==
    LET Out(state, start, auto, enabled, send) ==
            [state |-> state, start |-> start, auto |-> auto,
             enabled |-> enabled, send |-> send]
    IN
    CASE ms = PRE_MATCH -> Out(ms, FALSE, TRUE, FALSE, FALSE)
      [] ms = START_MATCH -> Out(AUTO_PERIOD, TRUE, TRUE, TRUE, TRUE)
      [] ms = AUTO_PERIOD ->
            IF t >= AutoEndMs
            THEN Out(PAUSE_PERIOD, FALSE, FALSE, FALSE, TRUE)
            ELSE Out(ms, FALSE, TRUE, TRUE, FALSE)
      [] ms = PAUSE_PERIOD ->
            IF t >= PauseEndMs
            THEN Out(TELEOP_PERIOD, FALSE, FALSE, TRUE, TRUE)
            ELSE Out(ms, FALSE, FALSE, FALSE, FALSE)
      [] ms = TELEOP_PERIOD ->
            IF t >= EndgameStartMs
            THEN Out(ENDGAME_PERIOD, FALSE, FALSE, TRUE, TRUE)
            ELSE Out(ms, FALSE, FALSE, TRUE, FALSE)
      [] ms = ENDGAME_PERIOD ->
            IF t >= TeleopEndMs
            THEN Out(POST_MATCH, FALSE, FALSE, FALSE, TRUE)
            ELSE Out(ms, FALSE, FALSE, TRUE, FALSE)
      [] OTHER -> Out(ms, FALSE, FALSE, FALSE, FALSE)

\* The switch of Arena.Update on the match state ms at match time t (ms): the
\* next state, whether matchStartTime is set to now, and the locals auto,
\* enabled and sendDsPacket after it.
UpdateSwitch(ms, t) ==
    LET Out(state, start, auto, enabled, send) ==
            [state |-> state, start |-> start, auto |-> auto,
             enabled |-> enabled, send |-> send]
    IN
    CASE ms = PRE_MATCH -> Out(ms, FALSE, TRUE, FALSE, FALSE)
      [] ms = START_MATCH -> Out(AUTO_PERIOD, TRUE, TRUE, TRUE, TRUE)
      [] ms = AUTO_PERIOD ->
            IF t >= AutoEndMs
            THEN Out(PAUSE_PERIOD, FALSE, FALSE, FALSE, TRUE)
            ELSE Out(ms, FALSE, TRUE, TRUE, FALSE)
      [] ms = PAUSE_PERIOD ->
            IF t >= PauseEndMs
            THEN Out(TELEOP_PERIOD, FALSE, FALSE, TRUE, TRUE)
            ELSE Out(ms, FALSE, FALSE, FALSE, FALSE)
      [] ms = TELEOP_PERIOD ->
            IF t >= EndgameStartMs
            THEN Out(ENDGAME_PERIOD, FALSE, FALSE, TRUE, FALSE)
            ELSE Out(ms, FALSE, FALSE, TRUE, FALSE)
      [] ms = ENDGAME_PERIOD ->
            IF t >= TeleopEndMs
            THEN Out(POST_MATCH, FALSE, FALSE, FALSE, TRUE)
            ELSE Out(ms, FALSE, FALSE, TRUE, FALSE)
      [] OTHER -> Out(ms, FALSE, FALSE, FALSE, FALSE)

\* SendToStation without the bypass test.
SendToStation_NoBypass(allianceStation, auto, enabled) ==
    IF allianceStation.DsConn.nil THEN allianceStation
    ELSE [allianceStation EXCEPT
            !.DsConn.Auto = auto,
            !.DsConn.Enabled = enabled /\ ~allianceStation.EmergencyStop]

\* What Arena.sendDsPacket writes to the connection of one station.
SendToStation(allianceStation, auto, enabled) ==
    IF allianceStation.DsConn.nil THEN allianceStation
    ELSE [allianceStation EXCEPT
            !.DsConn.Auto = auto,
            !.DsConn.Enabled = enabled /\ ~allianceStation.EmergencyStop
                                       /\ ~allianceStation.Bypass]

\* The sets of stations whose DsConn.Update returns an error in one dispatch:
\* none, or the first station if it has a connection.
UpdateFaults(st) ==
    {failing \in {{}, {StationOrder[1]}} : \A s \in failing : ~st[s].DsConn.nil}

\* sendDsPacket that returns at the first DsConn.Update error, visiting the
\* stations in LoadMatch's order.
sendDsPacket_StopAtError(st, auto, enabled, failing) ==
    [s \in Stations |->
        IF \E i, j \in 1..Len(StationOrder) :
              i < j /\ StationOrder[i] \in failing /\ StationOrder[j] = s
        THEN st[s]
        ELSE SendToStation(st[s], auto, enabled)]

\* Arena.sendDsPacket: the stations afterwards.  DsConn.Update returns an
\* error for the stations in failing; the error is dropped and the loop goes
\* on to the next station.
sendDsPacket(st, auto, enabled, failing) ==
    [s \in Stations |-> SendToStation(st[s], auto, enabled)]

\* Arena.Update
Update ==
    \E failing \in UpdateFaults(AllianceStations) :
    LET sw == UpdateSwitch(MatchState, MatchTimeMs(MatchState, sinceMatchStart))
        send == sw.send \/ sinceLastDsPacket >= dsPacketPeriodMs
    IN
    /\ CanStartMatch' = (OK \in CheckCanStartMatch(MatchState, AllianceStations))
    /\ MatchState' = sw.state
    /\ sinceMatchStart' = IF sw.start THEN 0 ELSE sinceMatchStart
    /\ AllianceStations' =
            IF send
            THEN sendDsPacket(AllianceStations, sw.auto, sw.enabled, failing)
            ELSE AllianceStations
    /\ sinceLastDsPacket' = IF send THEN 0 ELSE sinceLastDsPacket
    /\ last' = [Call("Update", OK) EXCEPT !.sent = send, !.auto = sw.auto,
                                          !.enabled = sw.enabled,
                                          !.failed = IF send THEN failing ELSE {}]
    /\ UNCHANGED <<currentMatch, assignCalls, flagWrites, loop>>

(* --------------------------- the surroundings -------------------------- *)

\* The values of sinceMatchStart (ms) at which calls are made: each threshold
\* of Update and the saturation value.
ClockPoints == {AutoEndMs, PauseEndMs, EndgameStartMs, TeleopEndMs, MatchClockCap}

\* The amounts of time (ms) that can pass before the next call: as much as
\* takes sinceMatchStart to a later clock point, or enough to saturate it.
TimeSteps ==
    {IF p > sinceMatchStart THEN p - sinceMatchStart ELSE MatchClockCap :
        p \in ClockPoints}

\* Time passes: d milliseconds.
Advance(d) ==
    /\ sinceMatchStart' = Min(sinceMatchStart + d, MatchClockCap)
    /\ sinceLastDsPacket' = Min(sinceLastDsPacket + d, PacketClockCap)
    /\ last' = Call("Env", OK)
    /\ UNCHANGED <<MatchState, AllianceStations, CanStartMatch, currentMatch,
                   assignCalls, flagWrites, loop>>

\* The groups of stations whose flags are written together between two calls:
\* the last station, or all six.
StationGroups == {{StationOrder[Len(StationOrder)]}, Stations}

\* The safety hardware sets or clears EmergencyStop of the stations in group.
SetEmergencyStop(group, b) ==
    /\ flagWrites > 0
    /\ AllianceStations' = [s \in Stations |->
            IF s \in group THEN [AllianceStations[s] EXCEPT !.EmergencyStop = b]
            ELSE AllianceStations[s]]
    /\ flagWrites' = flagWrites - 1
    /\ last' = Call("Env", OK)
    /\ UNCHANGED <<MatchState, CanStartMatch, currentMatch, sinceMatchStart,
                   sinceLastDsPacket, assignCalls, loop>>

\* The operator sets or clears Bypass of the stations in group.
SetBypass(group, b) ==
    /\ flagWrites > 0
    /\ AllianceStations' = [s \in Stations |->
            IF s \in group THEN [AllianceStations[s] EXCEPT !.Bypass = b]
            ELSE AllianceStations[s]]
    /\ flagWrites' = flagWrites - 1
    /\ last' = Call("Env", OK)
    /\ UNCHANGED <<MatchState, CanStartMatch, currentMatch, sinceMatchStart,
                   sinceLastDsPacket, assignCalls, loop>>

\* The connections of the stations in group learn that their robot is linked
\* or not (DsConn.DriverStationStatus.RobotLinked).
SetRobotLinked(group, b) ==
    /\ flagWrites > 0
    /\ \E s \in group : ~AllianceStations[s].DsConn.nil
    /\ AllianceStations' = [s \in Stations |->
            IF s \in group /\ ~AllianceStations[s].DsConn.nil
            THEN [AllianceStations[s] EXCEPT !.DsConn.RobotLinked = b]
            ELSE AllianceStations[s]]
    /\ flagWrites' = flagWrites - 1
    /\ last' = Call("Env", OK)
    /\ UNCHANGED <<MatchState, CanStartMatch, currentMatch, sinceMatchStart,
                   sinceLastDsPacket, assignCalls, loop>>

(* --------------------------- specification ----------------------------- *)

\* The arena after Arena.Setup: six empty stations, PRE_MATCH, the test match
\* loaded; matchStartTime and lastDsPacketTime are the zero time.
Init ==
    /\ MatchState = PRE_MATCH
    /\ AllianceStations = [s \in Stations |-> EmptyStation]
    /\ CanStartMatch = FALSE
    /\ currentMatch = TestMatch
    /\ sinceMatchStart = MatchClockCap
    /\ sinceLastDsPacket = PacketClockCap
    /\ last = Call("Setup", OK)
    /\ assignCalls = MaxAssignCalls
    /\ flagWrites = MaxFlagWrites
    /\ loop = LoopIdle

Next ==
    \/ \E t \in 0..MaxTeam, s \in StationArgs, f \in Faults : AssignTeam(t, s, f)
    \/ \E m \in Matches, at \in FaultStations, f \in Faults : LoadMatch(m, at, f)
    \/ \E t \in 0..MaxTeam, s \in StationArgs, f \in Faults : SubstituteTeam(t, s, f)
    \/ CheckCanStartMatchCall
    \/ StartMatch
    \/ AbortMatch
    \/ ResetMatch
    \/ Update
    \/ \E d \in TimeSteps : Advance(d)
    \/ \E g \in StationGroups, b \in BOOLEAN : SetEmergencyStop(g, b)
    \/ \E g \in StationGroups, b \in BOOLEAN : SetBypass(g, b)
    \/ \E g \in StationGroups, b \in BOOLEAN : SetRobotLinked(g, b)

Spec == Init /\ [][Next]_vars

\* Time passes.
Tock == \E d \in TimeSteps : Advance(d)

\* Arena.Run calls Update forever, sleeping between the calls: Update keeps
\* being called and time keeps passing.
FairSpec == Spec /\ WF_vars(Update) /\ WF_vars(Tock)

(* ------------------- sequences of team assignments --------------------- *)

\* The station arguments of the calls in an assignment sequence: every
\* station, and one that does not exist.
SeqStationArgs == Stations \cup {InvalidStation}

\* The arena after Arena.Setup, with the budgets of an assignment sequence.
AssignInit ==
    /\ MatchState = PRE_MATCH
    /\ AllianceStations = [s \in Stations |-> EmptyStation]
    /\ CanStartMatch = FALSE
    /\ currentMatch = TestMatch
    /\ sinceMatchStart = MatchClockCap
    /\ sinceLastDsPacket = PacketClockCap
    /\ last = Call("Setup", OK)
    /\ assignCalls = MaxSeqAssignCalls
    /\ flagWrites = MaxSeqFlagWrites
    /\ loop = LoopIdle

\* The operators' calls, with AssignTeam, LoadMatch and SubstituteTeam on every
\* station; Update is not called and no time passes.
AssignNext ==
    \/ \E t \in 0..MaxTeam, s \in SeqStationArgs, f \in Faults : AssignTeam(t, s, f)
    \/ \E m \in Matches, at \in Stations, f \in Faults : LoadMatch(m, at, f)
    \/ \E t \in 0..MaxTeam, s \in SeqStationArgs, f \in Faults : SubstituteTeam(t, s, f)
    \/ StartMatch
    \/ AbortMatch
    \/ ResetMatch
    \/ \E g \in StationGroups, b \in BOOLEAN : SetBypass(g, b)

AssignSpec == AssignInit /\ [][AssignNext]_vars

(* ----------------------- the unsynchronized loop ----------------------- *)

\* Arena.Run calls Update from its own goroutine and the arena has no lock:
\* the operators' calls run between the lines of an Update call.  The steps
\* of Update are its reads and writes of the arena, one read or one block of
\* writes each.

\* Line 251: CheckCanStartMatch is called and CanStartMatch written.
UpdateCheck ==
    /\ loop.pc = "idle"
    /\ CanStartMatch' = (OK \in CheckCanStartMatch(MatchState, AllianceStations))
    /\ loop' = [LoopIdle EXCEPT !.pc = "time"]
    /\ UNCHANGED <<MatchState, AllianceStations, currentMatch, sinceMatchStart,
                   sinceLastDsPacket, last, assignCalls, flagWrites>>

\* Line 257: MatchTimeSec reads MatchState and the clock.
UpdateTime ==
    /\ loop.pc = "time"
    /\ loop' = [loop EXCEPT !.pc = "switch",
                            !.t = MatchTimeMs(MatchState, sinceMatchStart)]
    /\ UNCHANGED <<MatchState, AllianceStations, CanStartMatch, currentMatch,
                   sinceMatchStart, sinceLastDsPacket, last, assignCalls, flagWrites>>

\* Line 258: the switch reads MatchState.
UpdateRead ==
    /\ loop.pc = "switch"
    /\ loop' = [loop EXCEPT !.pc = "case", !.ms = MatchState]
    /\ UNCHANGED <<MatchState, AllianceStations, CanStartMatch, currentMatch,
                   sinceMatchStart, sinceLastDsPacket, last, assignCalls, flagWrites>>

\* Lines 259 to 302: the case of the state read runs; it writes MatchState
\* only when it makes a transition.
UpdateCase ==
    /\ loop.pc = "case"
    /\ LET sw == UpdateSwitch(loop.ms, loop.t) IN
        /\ MatchState' = IF sw.state # loop.ms THEN sw.state ELSE MatchState
        /\ sinceMatchStart' = IF sw.start THEN 0 ELSE sinceMatchStart
        /\ loop' = [loop EXCEPT !.pc = "send", !.t = 0, !.auto = sw.auto,
                                !.enabled = sw.enabled, !.send = sw.send]
    /\ UNCHANGED <<AllianceStations, CanStartMatch, currentMatch,
                   sinceLastDsPacket, last, assignCalls, flagWrites>>

\* Lines 305 to 307: the dispatch, and Update returns.
UpdateSend ==
    /\ loop.pc = "send"
    /\ \E failing \in UpdateFaults(AllianceStations) :
        LET send == loop.send \/ sinceLastDsPacket >= dsPacketPeriodMs IN
        /\ AllianceStations' =
                IF send
                THEN sendDsPacket(AllianceStations, loop.auto, loop.enabled, failing)
                ELSE AllianceStations
        /\ sinceLastDsPacket' = IF send THEN 0 ELSE sinceLastDsPacket
        /\ last' = [Call("Update", OK) EXCEPT !.from = loop.ms, !.sent = send,
                                              !.auto = loop.auto,
                                              !.enabled = loop.enabled,
                                              !.failed = IF send THEN failing ELSE {}]
    /\ loop' = LoopIdle
    /\ UNCHANGED <<MatchState, CanStartMatch, currentMatch, sinceMatchStart,
                   assignCalls, flagWrites>>

\* The arena after Arena.Setup, with the budgets of the unsynchronized loop.
RaceInit ==
    /\ MatchState = PRE_MATCH
    /\ AllianceStations = [s \in Stations |-> EmptyStation]
    /\ CanStartMatch = FALSE
    /\ currentMatch = TestMatch
    /\ sinceMatchStart = MatchClockCap
    /\ sinceLastDsPacket = PacketClockCap
    /\ last = Call("Setup", OK)
    /\ assignCalls = MaxRaceAssignCalls
    /\ flagWrites = MaxRaceFlagWrites
    /\ loop = LoopIdle

\* The steps of the Update call of Arena.Run, and between any two of them the
\* operators' calls, the writes to the flags and the passing of time.
RaceNext ==
    \/ UpdateCheck
    \/ UpdateTime
    \/ UpdateRead
    \/ UpdateCase
    \/ UpdateSend
    \/ \E t \in 0..MaxTeam, s \in StationArgs, f \in Faults : AssignTeam(t, s, f)
    \/ \E m \in Matches, at \in FaultStations, f \in Faults : LoadMatch(m, at, f)
    \/ \E t \in 0..MaxTeam, s \in StationArgs, f \in Faults : SubstituteTeam(t, s, f)
    \/ StartMatch
    \/ AbortMatch
    \/ ResetMatch
    \/ \E d \in TimeSteps : Advance(d)
    \/ \E g \in StationGroups, b \in BOOLEAN : SetBypass(g, b)

RaceSpec == RaceInit /\ [][RaceNext]_vars

(* ----------------------- the loop with its period ----------------------- *)

\* Arena.Run: Update, then time.Sleep of arenaLoopPeriodMs, forever.  Update
\* is called when the last thing that happened was not an Update, and the
\* sleep follows each Update.
TickUpdate ==
    /\ last.op # "Update"
    /\ Update

TickSleep ==
    /\ last.op = "Update"
    /\ Advance(arenaLoopPeriodMs)

\* What the operators do while the loop sleeps: bypass stations, start the
\* match.
TickCall ==
    /\ last.op = "Env"
    /\ \/ StartMatch
       \/ \E g \in StationGroups, b \in BOOLEAN : SetBypass(g, b)

\* The times since the last packet at which the loop can find itself when it
\* wakes up: the multiples of the loop period below the packet period.
TickPhases ==
    {p \in 0..(dsPacketPeriodMs - 1) : p % arenaLoopPeriodMs = 0}

\* The loop starts after Arena.Setup; or it is found in the teleoperated
\* period of a match started with every station bypassed, one packet period
\* before the endgame begins, any time since its last packet.
TickInit ==
    /\ CanStartMatch = FALSE
    /\ currentMatch = TestMatch
    /\ assignCalls = 0
    /\ loop = LoopIdle
    /\ \/ /\ MatchState = PRE_MATCH
          /\ AllianceStations = [s \in Stations |-> EmptyStation]
          /\ sinceMatchStart = MatchClockCap
          /\ sinceLastDsPacket = PacketClockCap
          /\ last = Call("Setup", OK)
          /\ flagWrites = MaxTickFlagWrites
       \/ /\ MatchState = TELEOP_PERIOD
          /\ AllianceStations = [s \in Stations |-> [EmptyStation EXCEPT !.Bypass = TRUE]]
          /\ sinceMatchStart = EndgameStartMs - dsPacketPeriodMs
          /\ sinceLastDsPacket \in TickPhases
          /\ last = Call("Env", OK)
          /\ flagWrites = 0

TickNext ==
    \/ TickUpdate
    \/ TickSleep
    \/ TickCall

TickSpec == TickInit /\ [][TickNext]_vars

(* ------------------------------ properties ----------------------------- *)

\* The readiness condition: no station has its emergency stop set and every
\* station that is not bypassed has a connection whose robot is linked.
Ready(st) ==
    \A s \in Stations :
        /\ ~st[s].EmergencyStop
        /\ st[s].Bypass \/ (~st[s].DsConn.nil /\ st[s].DsConn.RobotLinked)

\* C1: MatchState changes only along the edges of the match flow, each by
\* the operation that owns it: PRE_MATCH to START_MATCH by StartMatch, one
\* step along START_MATCH, AUTO_PERIOD, PAUSE_PERIOD, TELEOP_PERIOD,
\* ENDGAME_PERIOD, POST_MATCH by Update, an in-progress state to POST_MATCH by
\* AbortMatch, POST_MATCH to PRE_MATCH by ResetMatch.
C1_StateEdges ==
    [][MatchState' # MatchState =>
        \/ /\ last'.op = "StartMatch"
           /\ MatchState = PRE_MATCH /\ MatchState' = START_MATCH
        \/ /\ last'.op = "Update"
           /\ \/ MatchState = START_MATCH /\ MatchState' = AUTO_PERIOD
              \/ MatchState = AUTO_PERIOD /\ MatchState' = PAUSE_PERIOD
              \/ MatchState = PAUSE_PERIOD /\ MatchState' = TELEOP_PERIOD
              \/ MatchState = TELEOP_PERIOD /\ MatchState' = ENDGAME_PERIOD
              \/ MatchState = ENDGAME_PERIOD /\ MatchState' = POST_MATCH
        \/ /\ last'.op = "AbortMatch"
           /\ InProgress(MatchState) /\ MatchState' = POST_MATCH
        \/ /\ last'.op = "ResetMatch"
           /\ MatchState = POST_MATCH /\ MatchState' = PRE_MATCH
    ]_vars

\* A match has been started again, 151 s after the start of an earlier match
\* that ended and was reset.
C1_Witness ==
    /\ MatchState = START_MATCH
    /\ sinceMatchStart >= TeleopEndMs
    /\ sinceMatchStart < MatchClockCap

\* C2: a StartMatch call in PRE_MATCH with the readiness condition true
\* returns nil and sets START_MATCH; any other StartMatch call returns an
\* error and leaves MatchState alone; and START_MATCH is entered in no other
\* way.
C2_SafeStart ==
    [][/\ last'.op = "StartMatch" =>
            IF MatchState = PRE_MATCH /\ Ready(AllianceStations)
            THEN last'.err = OK /\ MatchState' = START_MATCH
            ELSE last'.err # OK /\ MatchState' = MatchState
       /\ (MatchState' = START_MATCH /\ MatchState # START_MATCH) =>
            /\ last'.op = "StartMatch"
            /\ MatchState = PRE_MATCH /\ Ready(AllianceStations)
    ]_vars

\* A match was started with one station bypassed and another one ready by
\* its linked robot.
C2_Witness ==
    /\ last.op = "StartMatch" /\ last.err = OK /\ MatchState = START_MATCH
    /\ \E s \in Stations : AllianceStations[s].Bypass
    /\ \E s \in Stations :
          ~AllianceStations[s].Bypass /\ AllianceStations[s].DsConn.RobotLinked

\* C3: a CheckCanStartMatch call returns nil exactly when MatchState is
\* PRE_MATCH and the readiness condition holds, and changes nothing of the
\* arena.
C3_CheckCanStart ==
    [][last'.op = "CheckCanStartMatch" =>
        /\ (last'.err = OK) <=> (MatchState = PRE_MATCH /\ Ready(AllianceStations))
        /\ UNCHANGED <<MatchState, AllianceStations, CanStartMatch, currentMatch,
                       sinceMatchStart, sinceLastDsPacket>>
    ]_vars

\* The check passed with a bypassed station that has no connection and a
\* bypassed station whose robot is not linked.
C3_Witness ==
    /\ last.op = "CheckCanStartMatch" /\ last.err = OK
    /\ \E s \in Stations :
          AllianceStations[s].Bypass /\ AllianceStations[s].DsConn.nil
    /\ \E s \in Stations :
          /\ AllianceStations[s].Bypass
          /\ ~AllianceStations[s].DsConn.nil /\ ~AllianceStations[s].DsConn.RobotLinked


\* C4: Update takes START_MATCH to AUTO_PERIOD and sets the start time there
\* and nowhere else; it leaves AUTO_PERIOD exactly at match time >= 10 s,
\* PAUSE_PERIOD at >= 11 s, TELEOP_PERIOD at >= 121 s and ENDGAME_PERIOD at
\* >= 151 s, each for the next period; and a match in progress always reaches
\* POST_MATCH.
C4_TimedFlow ==
    /\ [][last'.op = "Update" =>
            /\ MatchState = START_MATCH =>
                    MatchState' = AUTO_PERIOD /\ sinceMatchStart' = 0
            /\ MatchState # START_MATCH => sinceMatchStart' = sinceMatchStart
            /\ MatchState = AUTO_PERIOD =>
                    MatchState' = IF sinceMatchStart >= 10 * 1000
                                  THEN PAUSE_PERIOD ELSE AUTO_PERIOD
            /\ MatchState = PAUSE_PERIOD =>
                    MatchState' = IF sinceMatchStart >= 11 * 1000
                                  THEN TELEOP_PERIOD ELSE PAUSE_PERIOD
            /\ MatchState = TELEOP_PERIOD =>
                    MatchState' = IF sinceMatchStart >= 121 * 1000
                                  THEN ENDGAME_PERIOD ELSE TELEOP_PERIOD
            /\ MatchState = ENDGAME_PERIOD =>
                    MatchState' = IF sinceMatchStart >= 151 * 1000
                                  THEN POST_MATCH ELSE ENDGAME_PERIOD
       ]_vars
    /\ (InProgress(MatchState) ~> MatchState = POST_MATCH)

\* An Update at match time 151 s has taken the arena from ENDGAME_PERIOD to
\* POST_MATCH.
C4_Witness ==
    /\ last.op = "Update" /\ last.from = ENDGAME_PERIOD
    /\ MatchState = POST_MATCH
    /\ sinceMatchStart = 151 * 1000

\* C5: AbortMatch in an in-progress state returns nil and sets POST_MATCH;
\* in PRE_MATCH and POST_MATCH it returns NotInProgress and leaves MatchState
\* alone; no Update takes the arena out of POST_MATCH, and nothing but
\* ResetMatch does.
C5_Abort ==
    [][/\ last'.op = "AbortMatch" =>
            IF InProgress(MatchState)
            THEN last'.err = OK /\ MatchState' = POST_MATCH
            ELSE last'.err = ErrNotInProgress /\ MatchState' = MatchState
       /\ (MatchState = POST_MATCH /\ last'.op = "Update") => MatchState' = POST_MATCH
       /\ (MatchState = POST_MATCH /\ MatchState' # POST_MATCH) => last'.op = "ResetMatch"
    ]_vars

\* A match aborted before the end of the pause is still in POST_MATCH after
\* an Update made in POST_MATCH.
C5_Witness ==
    /\ last.op = "Update" /\ last.from = POST_MATCH
    /\ MatchState = POST_MATCH
    /\ sinceMatchStart <= 11 * 1000

\* C6: ResetMatch in POST_MATCH or PRE_MATCH returns nil, sets PRE_MATCH and
\* clears Bypass of every station, leaving EmergencyStop, team and connection
\* of every station alone; in an in-progress state it returns MatchInProgress
\* and changes neither MatchState nor any station.
C6_Reset ==
    [][last'.op = "ResetMatch" =>
        IF MatchState = POST_MATCH \/ MatchState = PRE_MATCH
        THEN /\ last'.err = OK
             /\ MatchState' = PRE_MATCH
             /\ \A s \in Stations :
                    /\ ~AllianceStations'[s].Bypass
                    /\ AllianceStations'[s].EmergencyStop = AllianceStations[s].EmergencyStop
                    /\ AllianceStations'[s].team = AllianceStations[s].team
                    /\ AllianceStations'[s].DsConn = AllianceStations[s].DsConn
        ELSE /\ last'.err = ErrMatchInProgress
             /\ MatchState' = MatchState
             /\ AllianceStations' = AllianceStations
    ]_vars

\* ResetMatch has succeeded after a match, with an emergency stop set and a
\* team bound.
C6_Witness ==
    /\ last.op = "ResetMatch" /\ last.err = OK
    /\ sinceMatchStart < MatchClockCap
    /\ \E s \in Stations : AllianceStations[s].EmergencyStop
    /\ \E s \in Stations : ~AllianceStations[s].DsConn.nil

\* C7: in every dispatch of an Update, the connection of a station with
\* EmergencyStop or Bypass set gets Enabled false, and the connection of a
\* station with neither set gets the enabled flag of the dispatch.
C7_EnabledOverride ==
    [][(last'.op = "Update" /\ last'.sent) =>
        \A s \in Stations :
            ~AllianceStations[s].DsConn.nil =>
                AllianceStations'[s].DsConn.Enabled =
                    IF AllianceStations[s].EmergencyStop \/ AllianceStations[s].Bypass
                    THEN FALSE
                    ELSE last'.enabled
    ]_vars

\* A dispatch with enabled true has disabled the robot of a station whose
\* emergency stop is set and enabled the robot of another station.
C7_Witness ==
    /\ last.op = "Update" /\ last.sent /\ last.enabled
    /\ \E s \in Stations :
          /\ AllianceStations[s].EmergencyStop /\ ~AllianceStations[s].Bypass
          /\ ~AllianceStations[s].DsConn.nil /\ ~AllianceStations[s].DsConn.Enabled
    /\ \E s \in Stations : AllianceStations[s].DsConn.Enabled

\* C8: in PRE_MATCH with an emergency stop set on some station,
\* CheckCanStartMatch and StartMatch return EmergencyStopActive.
C8_EmergencyStopReported ==
    (/\ last.op \in {"CheckCanStartMatch", "StartMatch"}
     /\ MatchState = PRE_MATCH
     /\ \E s \in Stations : AllianceStations[s].EmergencyStop)
    => last.err = ErrEmergencyStop

\* C9: while a match is in progress, AssignTeam, LoadMatch and SubstituteTeam
\* return an error, and the current match and the team and connection of
\* every station stay as they are.
C9_FrozenInProgress ==
    [][InProgress(MatchState) =>
        /\ last'.op \in {"AssignTeam", "LoadMatch", "SubstituteTeam"} => last'.err # OK
        /\ currentMatch' = currentMatch
        /\ \A s \in Stations :
              /\ AllianceStations'[s].team = AllianceStations[s].team
              /\ AllianceStations'[s].DsConn.nil = AllianceStations[s].DsConn.nil
              /\ AllianceStations'[s].DsConn.TeamId = AllianceStations[s].DsConn.TeamId
    ]_vars

\* C10: every station is empty (no team, no connection) or bound (a team and
\* a connection for that team).
C10_SlotEmptyOrBound ==
    \A s \in Stations :
        \/ AllianceStations[s].team = NoTeam /\ AllianceStations[s].DsConn.nil
        \/ /\ AllianceStations[s].team # NoTeam
           /\ ~AllianceStations[s].DsConn.nil
           /\ AllianceStations[s].DsConn.TeamId = AllianceStations[s].team

(* ------------------------- team assignment claims ---------------------- *)

\* The team-number fields of a match record, in the order of the stations.
MatchFields == <<"Red1", "Red2", "Red3", "Blue1", "Blue2", "Blue3">>

\* The position of a station in the order of the stations; one past the last
\* for anything that is no station.
StationIndex(station) ==
    IF station \in Stations
    THEN CHOOSE i \in 1..Len(StationOrder) : StationOrder[i] = station
    ELSE Len(StationOrder) + 1

\* A slot is bound to team t when it has team t and a connection for t; for
\* the team number 0, when it has no team and no connection.
BoundTo(slot, t) ==
    IF t = 0 THEN slot.team = NoTeam /\ slot.DsConn.nil
    ELSE slot.team = t /\ ~slot.DsConn.nil /\ slot.DsConn.TeamId = t

\* C11: AssignTeam(0, s) on a station s returns nil and leaves the slot with
\* no team and no connection; and an AssignTeam(0, s) call that follows one
\* changes no station, closes no connection and creates none.
C11_ZeroEmpties ==
    [][(last'.op = "AssignTeam" /\ last'.teamId = 0 /\ last'.station \in Stations) =>
        /\ last'.err = OK
        /\ AllianceStations'[last'.station].team = NoTeam
        /\ AllianceStations'[last'.station].DsConn.nil
        /\ (last.op = "AssignTeam" /\ last.teamId = 0 /\ last.station = last'.station) =>
                /\ AllianceStations' = AllianceStations
                /\ last'.closes = 0 /\ last'.creates = 0
    ]_vars

\* C12: AssignTeam(t, s) on a station s whose connection is one for team t
\* returns nil, calls neither Close nor GetTeamById nor
\* NewDriverStationConnection, and changes no station.
C12_SameTeamNoOp ==
    [][(/\ last'.op = "AssignTeam" /\ last'.station \in Stations
        /\ ~AllianceStations[last'.station].DsConn.nil
        /\ AllianceStations[last'.station].DsConn.TeamId = last'.teamId) =>
        /\ last'.err = OK
        /\ last'.closes = 0 /\ last'.creates = 0 /\ last'.lookups = 0
        /\ AllianceStations' = AllianceStations
    ]_vars

\* AssignTeam(1, s) was called on a bypassed station bound to team 1.
C12_Witness ==
    /\ last.op = "AssignTeam" /\ last.err = OK /\ last.teamId = 1
    /\ last.station \in Stations
    /\ last.lookups = 0 /\ last.creates = 0
    /\ AllianceStations[last.station].Bypass
    /\ AllianceStations[last.station].DsConn.TeamId = 1

\* C13: in every step, for every station: a connection is created only if
\* the station had none or its connection was closed without error in the
\* same call; a connection is closed only if there was one; a connection that
\* is no longer the station's has been closed, and one that is newly the
\* station's has been created, in that call; a step by anything but
\* AssignTeam, LoadMatch and SubstituteTeam leaves the connection in place;
\* and an AssignTeam or SubstituteTeam call closes at most one connection and
\* creates at most one.
C13_OneLiveConnection ==
    [][\A s \in Stations :
        LET before == AllianceStations[s].DsConn
            after == AllianceStations'[s].DsConn
            gone == ~before.nil /\ (after.nil \/ after.TeamId # before.TeamId)
            new == ~after.nil /\ (before.nil \/ after.TeamId # before.TeamId)
        IN
        /\ s \in last'.created => (before.nil \/ s \in last'.closed)
        /\ s \in last'.closed => ~before.nil
        /\ gone => s \in last'.closed
        /\ new => s \in last'.created
        /\ last'.op \notin {"AssignTeam", "LoadMatch", "SubstituteTeam"} =>
                (~gone /\ ~new /\ last'.closed = {} /\ last'.created = {})
        /\ last'.op \in {"AssignTeam", "SubstituteTeam"} =>
                (last'.closes <= 1 /\ last'.creates <= 1)
    ]_vars

\* A call has closed the connection of a station and created one for another
\* team there.
C13_Witness ==
    /\ last.op \in {"AssignTeam", "SubstituteTeam"} /\ last.err = OK
    /\ last.closed = {last.station} /\ last.created = {last.station}
    /\ last.closes = 1 /\ last.creates = 1
    /\ AllianceStations[last.station].DsConn.TeamId = last.teamId

\* C14: SubstituteTeam(t, s) with a qualification or elimination match
\* current returns SubstitutionNotAllowed and changes neither the stations nor
\* the match record nor MatchState; with a test or practice match current, if
\* it returns nil then station s is bound to t and the match record has t in
\* the field of s and is otherwise as before, and if it returns an error the
\* match record is as before.
C14_Substitute ==
    [][last'.op = "SubstituteTeam" =>
        IF currentMatch.Type \in {"qualification", "elimination"}
        THEN /\ last'.err = ErrSubstitution
             /\ AllianceStations' = AllianceStations
             /\ currentMatch' = currentMatch
             /\ MatchState' = MatchState
        ELSE IF last'.err = OK
        THEN /\ last'.station \in Stations
             /\ BoundTo(AllianceStations'[last'.station], last'.teamId)
             /\ currentMatch'.Type = currentMatch.Type
             /\ \A i \in 1..Len(MatchFields) :
                    currentMatch'[MatchFields[i]] =
                        IF i = StationIndex(last'.station) THEN last'.teamId
                        ELSE currentMatch[MatchFields[i]]
        ELSE currentMatch' = currentMatch
    ]_vars

\* C15: an AssignTeam, SubstituteTeam, StartMatch, AbortMatch or ResetMatch
\* call that returns an error, and a LoadMatch call that returns
\* MatchInProgress, leaves MatchState, the match record and every station
\* (team, connection, Bypass, EmergencyStop) as they were.
C15_RejectedUnchanged ==
    [][(\/ /\ last'.op \in {"AssignTeam", "SubstituteTeam", "StartMatch",
                            "AbortMatch", "ResetMatch"}
           /\ last'.err # OK
        \/ /\ last'.op = "LoadMatch"
           /\ last'.err = ErrMatchInProgress) =>
        /\ MatchState' = MatchState
        /\ currentMatch' = currentMatch
        /\ AllianceStations' = AllianceStations
    ]_vars

\* C16: LoadMatch outside PRE_MATCH returns MatchInProgress and changes
\* neither the match record nor the stations; in PRE_MATCH it makes the given
\* match current, binds the stations before the one whose AssignTeam failed
\* (all six if none failed) to the teams of that match, returns the error of
\* the failing AssignTeam and leaves the stations after the failing one as
\* they were.
C16_LoadMatch ==
    [][last'.op = "LoadMatch" =>
        IF MatchState # PRE_MATCH
        THEN /\ last'.err = ErrMatchInProgress
             /\ currentMatch' = currentMatch
             /\ AllianceStations' = AllianceStations
        ELSE LET k == StationIndex(last'.station) IN
             /\ currentMatch' \in Matches
             /\ (last'.err = OK) <=> (k = Len(StationOrder) + 1)
             /\ last'.err \in {OK, ErrClose, ErrStore, ErrUnknownTeam, ErrNewConn}
             /\ \A i \in 1..Len(StationOrder) :
                    /\ i < k => BoundTo(AllianceStations'[StationOrder[i]],
                                        currentMatch'[MatchFields[i]])
                    /\ i > k => AllianceStations'[StationOrder[i]] =
                                    AllianceStations[StationOrder[i]]
    ]_vars

(* --------------------------- control loop claims ----------------------- *)

\* C17: Update and the operators' calls are serialized, so that a step of an
\* Update call made when the arena is in POST_MATCH, after an AbortMatch that
\* returned nil or the timed end of the match, leaves it in POST_MATCH: only
\* ResetMatch takes the arena out of POST_MATCH.
C17_Serialized ==
    [][MatchState = POST_MATCH =>
        /\ loop' # loop => MatchState' = POST_MATCH
        /\ MatchState' # POST_MATCH => last'.op = "ResetMatch"
    ]_vars

\* The auto and enabled flags of the row of a match state in the table of
\* the periods.
RowAuto(ms) == ms \in {PRE_MATCH, START_MATCH, AUTO_PERIOD}
RowEnabled(ms) == ms \in {START_MATCH, AUTO_PERIOD, TELEOP_PERIOD, ENDGAME_PERIOD}

\* C18: an Update that dispatches calls sendDsPacket with the auto and
\* enabled flags of the row of the state the arena is in when Update returns;
\* every station that has a connection gets that auto flag and that enabled
\* flag (false if the station's EmergencyStop or Bypass is set), whichever
\* stations' DsConn.Update returned an error; and the time of the dispatch is
\* recorded.
C18_Dispatch ==
    [][(last'.op = "Update" /\ last'.sent) =>
        /\ last'.auto = RowAuto(MatchState')
        /\ last'.enabled = RowEnabled(MatchState')
        /\ \A s \in Stations :
              ~AllianceStations[s].DsConn.nil =>
                 /\ AllianceStations'[s].DsConn.Auto = RowAuto(MatchState')
                 /\ AllianceStations'[s].DsConn.Enabled =
                        (/\ RowEnabled(MatchState')
                         /\ ~AllianceStations[s].EmergencyStop
                         /\ ~AllianceStations[s].Bypass)
        /\ sinceLastDsPacket' = 0
    ]_vars

\* The Update that began the autonomous period has enabled the robot of the
\* last station although DsConn.Update failed for the first station.
C18_Witness ==
    /\ last.op = "Update" /\ last.sent /\ last.from = START_MATCH
    /\ last.failed = {StationOrder[1]}
    /\ AllianceStations[StationOrder[Len(StationOrder)]].DsConn.Enabled
    /\ AllianceStations[StationOrder[Len(StationOrder)]].DsConn.Auto

\* C19: an Update dispatches exactly when it changed MatchState otherwise
\* than from TELEOP_PERIOD to ENDGAME_PERIOD or at least 250 ms have passed
\* since the last dispatch; an Update that changes the row's auto or enabled
\* flag dispatches; and with Update called every 10 ms, no more than
\* 250 + 10 ms pass after a dispatch without the next one.
C19_DispatchCadence ==
    /\ [][last'.op = "Update" =>
            /\ last'.sent <=>
                   \/ /\ MatchState' # MatchState
                      /\ ~(MatchState = TELEOP_PERIOD /\ MatchState' = ENDGAME_PERIOD)
                   \/ sinceLastDsPacket >= 250
            /\ (\/ RowAuto(MatchState') # RowAuto(MatchState)
                \/ RowEnabled(MatchState') # RowEnabled(MatchState)) => last'.sent
       ]_vars
    /\ [](last.op # "Setup" => sinceLastDsPacket <= 250 + 10)

\* An Update has entered ENDGAME_PERIOD without dispatching, 240 ms after the
\* last dispatch.
C19_Witness ==
    /\ last.op = "Update" /\ last.from = TELEOP_PERIOD
    /\ MatchState = ENDGAME_PERIOD
    /\ ~last.sent
    /\ sinceLastDsPacket = 240

\* Enabled is false in every connection.
AllDisabled(st) ==
    \A s \in Stations : ~st[s].DsConn.nil => ~st[s].DsConn.Enabled

\* C20: when an Update returns with the arena in POST_MATCH, Enabled is false
\* in every connection; and once Enabled is false in every connection in
\* POST_MATCH, PRE_MATCH or START_MATCH, it stays so until AUTO_PERIOD is
\* entered.
C20_DisabledAfterMatch ==
    [][/\ (last'.op = "Update" /\ MatchState' = POST_MATCH) =>
            AllDisabled(AllianceStations')
       /\ (/\ MatchState \in {POST_MATCH, PRE_MATCH, START_MATCH}
           /\ AllDisabled(AllianceStations)
           /\ MatchState' # AUTO_PERIOD) => AllDisabled(AllianceStations')
    ]_vars

====
